---- MODULE Spec2Model ----
(***************************************************************************)
(* PUBG-Lobby: the generation orchestration of src/App.tsx (upload,        *)
(* analysis, the two-worker batch run, single-label regeneration, reset)   *)
(* and the retry / fallback policy of src/services/geminiService.ts.       *)
(* Spec runs the application; SpecRetry, SpecGenerate, SpecGender and      *)
(* SpecAlbum run one withRetry, generateCharacterImage, detectGender and   *)
(* createAlbumPage invocation on its own, SpecDraw the drawing of one      *)
(* image on its card and SpecLoadout the choice of the outfits of one      *)
(* upload, with the application's variables at rest.                       *)
(*                                                                         *)
(* One step of the model is one task of the browser's event loop together  *)
(* with the micro-tasks (promise continuations) it triggers: a user event, *)
(* the arrival of a remote response, or the expiry of a backoff timer.     *)
(* React state is read as committed: a handler sees the state left by the  *)
(* previous step, and the effect of App.tsx:130-136 runs at the end of the *)
(* step that changed its dependencies.                                     *)
(***************************************************************************)
EXTENDS Integers, Sequences, FiniteSets, TLC

VARIABLES
    appState,            \* App.tsx:123  'idle' | 'analyzing' | 'generating' | 'results-shown'
    uploadedImage,       \* App.tsx:119  "null" or the data URL ("ok")
    generatedImages,     \* App.tsx:120  label -> status ("none" = key absent)
    isLoading,           \* App.tsx:121
    generationItems,     \* App.tsx:124  sequence of labels (item.character)
    generationTriggered, \* App.tsx:128  the ref guarding the effect
    analysis,            \* the detectGender call in flight: "none" | "ok" | "bad" (data URL)
    itemsQueue,          \* App.tsx:214  the batch's local queue
    workersRunning,      \* App.tsx:234  workers whose promise has not resolved
    calls,               \* generateCharacterImage invocations in flight
    uploads,             \* number of uploads so far (history, bounds the run)
    regens,              \* number of regenerations started (history, bounds the run)
    refused,             \* number of handleRegenerateCharacter calls that returned early (history)
    resets,              \* number of handleReset calls so far (history)
    performed,           \* label -> number of processItem calls in the current batch (history)
    rt,                  \* state of one invocation run on its own (SpecRetry,
                         \* SpecGenerate, SpecGender, SpecAlbum, SpecDraw,
                         \* SpecLoadout); [pc |-> "off"] in Spec
    album                \* the handler that called createAlbumPage last for the results
                         \* on screen: "none" | "download" | "share" (history)

vars == <<appState, uploadedImage, generatedImages, isLoading, generationItems,
          generationTriggered, analysis, itemsQueue, workersRunning, calls,
          uploads, regens, refused, resets, performed, rt, album>>

appVars == <<appState, uploadedImage, generatedImages, isLoading, generationItems,
             generationTriggered, analysis, itemsQueue, workersRunning, calls,
             uploads, regens, refused, resets, performed, album>>

\* ---------------------------------------------------------------- bounds
NumLabels == 3
MaxUploads == 2
MaxRegens == 1
MaxRefused == 1
MaxImages == 7

\* The natural width and height of an image are in 1..MaxNatural
MaxNatural == 12

\* The loadout is drawn from the first PoolLen outfits of each pool
PoolLen == 4

\* ------------------------------------------------------ program constants
NUM_IMAGES_TO_GENERATE == 4
concurrencyLimit == 2
maxRetries == 3
initialDelay == 1000
canvasWidth == 2480
canvasHeight == 3508
contentTopMargin == 300

Labels == 1..NumLabels

Min(a, b) == IF a < b THEN a ELSE b

Range(f) == {f[i] : i \in DOMAIN f}

\* ===================================================================
\* src/services/geminiService.ts
\* ===================================================================

\* A message is a sequence of one-character strings.
internal == <<"i", "n", "t", "e", "r", "n", "a", "l">>

\* String.prototype.toLowerCase, on the letters the model's messages use
LowerChar(c) ==
    CASE c = "I" -> "i" [] c = "N" -> "n" [] c = "T" -> "t" [] c = "E" -> "e"
      [] c = "R" -> "r" [] c = "A" -> "a" [] c = "L" -> "l" [] c = "B" -> "b"
      [] c = "D" -> "d" [] c = "M" -> "m" [] c = "F" -> "f" [] c = "U" -> "u"
      [] c = "K" -> "k" [] c = "O" -> "o" [] c = "W" -> "w" [] OTHER -> c

toLowerCase(s) == [i \in 1..Len(s) |-> LowerChar(s[i])]

\* String.prototype.includes
includes(s, sub) ==
    \E i \in 0..(Len(s) - Len(sub)) : SubSeq(s, i + 1, i + Len(sub)) = sub

\* The error messages the remote call is made to fail with
Messages ==
    { <<>>,
      <<"b", "a", "d">>,
      <<"i", "n", "t", "e", "r", "n", "a", "l">>,
      <<"I", "n", "t", "e", "r", "n", "a", "l">>,
      <<"a", " ", "I", "N", "T", "E", "R", "N", "A", "L", " ", "e">>,
      <<"i", "n", "t", "e", "r", "n", "a">> }

\* error.status values (0: the error carries no status)
StatusCodes == {0, 400, 429, 500, 503}

\* What one ai.models.generateContent call can come back with
Errors == [kind : {"error"}, status : StatusCodes, message : Messages]

Responses ==
    [kind : {"image", "text"}, status : {0}, message : {<<>>}] \cup Errors

\* The responses the application's runs are driven with: an image, a text-only
\* response, and errors that are retriable by status, retriable by message
\* and not retriable
AppResponses ==
    { r \in Responses :
        \/ r.kind # "error"
        \/ r.status = 503 /\ r.message = <<>>
        \/ r.status = 0 /\ r.message = <<"I", "n", "t", "e", "r", "n", "a", "l">>
        \/ r.status = 400 /\ r.message = <<"b", "a", "d">> }

\* isRetriable by the status alone
isRetriableStatusOnly(e) == e.status \in {500, 503}

\* isRetriable with every failure that carries a status taken as retriable
isRetriableAnyStatus(e) ==
    e.status # 0 \/ includes(toLowerCase(e.message), internal)

\* withRetry, line 77
isRetriable(e) ==
    e.status \in {500, 503} \/ includes(toLowerCase(e.message), internal)

\* Math.random() * 1000, line 81: a value of [0, 1000), in milliseconds
Jitters == {0, 500, 999}

\* backoffDelay with the exponent `attempt`
backoffDelayDoubled(attempt, jitter) == initialDelay * 2^attempt + jitter

\* withRetry, line 81: the delay after the failure of attempt `attempt`
backoffDelay(attempt, jitter) == initialDelay * 2^(attempt - 1) + jitter

\* withRetryStep with a text-only response handled inside the loop as a
\* failure whose message is the response's text
withRetryStepTextRetried(attempt, resp) ==
    IF resp.kind = "image" THEN "return"
    ELSE IF /\ \/ resp.kind = "error" /\ resp.status \in {500, 503}
               \/ includes(toLowerCase(resp.message), internal)
            /\ attempt < maxRetries
         THEN "delay"
    ELSE IF resp.kind = "error" THEN "throw"
    ELSE "return"

\* withRetryStep with `attempt <= maxRetries` in the test of line 79
withRetryStepOffByOne(attempt, resp) ==
    IF resp.kind # "error" THEN "return"
    ELSE IF isRetriable(resp) /\ attempt <= maxRetries THEN "delay"
    ELSE "throw"

\* withRetry, lines 66-94: what the loop does with the outcome of attempt
\* number `attempt`: "return" the response, "delay" and go round again, or
\* "throw" the error.
withRetryStep(attempt, resp) ==
    IF resp.kind # "error" THEN "return"
    ELSE IF isRetriable(resp) /\ attempt < maxRetries THEN "delay"
    ELSE "throw"

\* withRetry, lines 88-92: what is thrown for the caught error e. The SDK
\* rejects with Error instances, so line 89 throws e itself.
withRetryThrown(e) == e

\* processGeminiResponse, lines 43-54: TRUE when an image part is found,
\* FALSE when it throws "The AI model responded with text instead of an image"
processGeminiResponse(resp) == resp.kind = "image"

\* Messages built by the service are sequences too: a fixed sentence of the
\* source is one element, the letters of an interpolated message follow.
NO_IMAGE == "The AI model responded with text instead of an image"

\* processGeminiResponse, line 53: the message of the error thrown for a
\* response without image part whose text is resp.message
noImageMessage(resp) ==
    <<NO_IMAGE, ": \"">>
      \o (IF resp.message = <<>> THEN <<"No text response received.">> ELSE resp.message)
      \o <<"\"">>

\* isNoImageError with every caught error taken for a missing image
isNoImageErrorAny(errorMessage) == Len(errorMessage) >= 0

\* generateCharacterImage, line 132
isNoImageError(errorMessage) == includes(errorMessage, <<NO_IMAGE>>)

\* response.text of a response without image part
Texts ==
    { <<>>,
      <<"b", "a", "d">>,
      <<"I", "n", "t", "e", "r", "n", "a", "l">> }

\* The responses one generateCharacterImage invocation is driven with: an
\* image, text-only responses, errors retriable by status, by message and by
\* both, and errors that are not retriable
GenResponses ==
    [kind : {"image"}, status : {0}, message : {<<>>}]
      \cup [kind : {"text"}, status : {0}, message : Texts]
      \cup { r \in Errors :
                \/ r.status = 503 /\ r.message = <<>>
                \/ r.status = 0 /\ r.message = <<"I", "n", "t", "e", "r", "n", "a", "l">>
                \/ r.status = 500 /\ r.message = <<"i", "n", "t", "e", "r", "n", "a", "l">>
                \/ r.status = 400 /\ r.message = <<"b", "a", "d">>
                \/ r.status = 429 /\ r.message = <<"i", "n", "t", "e", "r", "n", "a">> }

\* A data URL is the sequence of its parts: "data:", the media type up to and
\* with its slash, the pieces of the subtype, ";base64," and the data.
WordTokens == {"png", "jpeg", "svg", "xml", "pdf"}

\* imageDataUrl.match(/^data:(image\/\w+);base64,(.*)$/), lines 108 and 174
matchDataUrl(url) ==
    /\ Len(url) >= 4
    /\ url[1] = "data:"
    /\ url[2] = "image/"
    /\ url[3] \in WordTokens
    /\ url[4] = ";base64,"

\* What FileReader.readAsDataURL yields for a PNG, a JPEG, an SVG and a PDF
\* file and for a file whose type the browser does not know
DataUrls ==
    { <<"data:", "image/", "png", ";base64,", "AAAA">>,
      <<"data:", "image/", "jpeg", ";base64,", "">>,
      <<"data:", "image/", "svg", "+", "xml", ";base64,", "AAAA">>,
      <<"data:", "application/", "pdf", ";base64,", "AAAA">>,
      <<"data:", ";base64,", "AAAA">> }

\* A prompt is a sequence of clauses, each the text that leads up to a quoted
\* argument and the argument itself (a label, EmptyString, or 0 for any other
\* text).
MARKER == "wearing the iconic PUBG outfit:"

\* The empty capture of "(.*?)" for a clause that quotes nothing
EmptyString == -1

\* isFalsy with the test `character === null`
isNullOnly(character) == character = 0

\* `!character`, line 137: null (0) and the empty string are falsy
isFalsy(character) == character \in {0, EmptyString}

\* extractCharacter, lines 33-36: the quoted argument of the first clause
\* led by the marker, or 0 (null) when the prompt holds no such clause
extractCharacter(prompt) ==
    LET hits == {i \in 1..Len(prompt) : prompt[i].lead = MARKER} IN
    IF hits = {} THEN 0
    ELSE prompt[CHOOSE i \in hits : \A j \in hits : i <= j].quoted

\* String.prototype.trim
RECURSIVE trim(_)
trim(s) ==
    IF s = <<>> THEN s
    ELSE IF Head(s) \in {" ", "\n"} THEN trim(Tail(s))
    ELSE IF s[Len(s)] \in {" ", "\n"} THEN trim(SubSeq(s, 1, Len(s) - 1))
    ELSE s

male == <<"m", "a", "l", "e">>

female == <<"f", "e", "m", "a", "l", "e">>

\* response.text of the answers to the gender question
GenderTexts ==
    { <<"M", "a", "l", "e">>,
      <<"F", "e", "m", "a", "l", "e">>,
      <<"U", "n", "k", "n", "o", "w", "n">>,
      <<" ", "f", "e", "m", "a", "l", "e", "\n">>,
      <<"M", "A", "L", "E">>,
      <<"n", "o">>,
      <<>> }

\* What one generateContent call of detectGender can come back with: a text,
\* a response whose text is undefined (kind "notext"), or an error
GenderResponses ==
    [kind : {"text"}, status : {0}, message : GenderTexts]
      \cup [kind : {"notext"}, status : {0}, message : {<<>>}]
      \cup {r \in GenResponses : r.kind = "error"}

\* detectGender, lines 193-206: the value returned for the response that
\* withRetry returned; response.text.trim() throws when the text is
\* undefined, and the catch of line 203 returns 'Unknown'
genderOf(resp) ==
    IF resp.kind = "notext" THEN "Unknown"
    ELSE LET resultText == toLowerCase(trim(resp.message)) IN
         IF includes(resultText, male) THEN "Male"
         ELSE IF includes(resultText, female) THEN "Female"
         ELSE "Unknown"

\* getFallbackPrompt with the marker's wording
getFallbackPromptSame(character) ==
    << [lead |-> "wearing the iconic PUBG outfit:", quoted |-> character] >>

\* getFallbackPrompt, lines 24-26
getFallbackPrompt(character) ==
    << [lead |-> "wearing the PUBG outfit", quoted |-> character] >>

DETAILS == "The AI model failed to generate an image. Details: "

BOTH == "The AI model failed with both original and fallback prompts. Last error: "

\* generateCharacterImage, lines 119-165: what an invocation in phase `phase`
\* ("primary" | "fallback") at attempt `attempt` does when the remote call
\* comes back with resp.
\*   move "delay"    backoff, then the next attempt of the same phase
\*        "resolve"  an image is returned (lines 129, 154)
\*        "fallback" the fallback prompt is issued (lines 143-153)
\*        "reject"   the invocation throws `thrown`
\*   caught          the message of the error caught at line 130 or 155
\*   branch          the throw statement taken: "no-label" (line 139),
\*                   "both" (line 158), "details" (line 163)
generateOutcome(phase, attempt, prompt, resp) ==
    LET w == withRetryStep(attempt, resp)
        quiet == [caught |-> 0, thrown |-> 0, branch |-> "none"]
        errorMessage == IF w = "throw" THEN withRetryThrown(resp).message
                                       ELSE noImageMessage(resp)
    IN
    IF w = "delay" THEN [move |-> "delay"] @@ quiet
    ELSE IF w = "return" /\ processGeminiResponse(resp) THEN [move |-> "resolve"] @@ quiet
    ELSE IF phase = "fallback"
         THEN [move |-> "reject", caught |-> errorMessage,
               thrown |-> <<BOTH>> \o errorMessage, branch |-> "both"]
    ELSE IF ~isNoImageError(errorMessage)
         THEN [move |-> "reject", caught |-> errorMessage,
               thrown |-> <<DETAILS>> \o errorMessage, branch |-> "details"]
    ELSE IF isFalsy(extractCharacter(prompt))
         THEN [move |-> "reject", caught |-> errorMessage,
               thrown |-> errorMessage, branch |-> "no-label"]
    ELSE [move |-> "fallback", caught |-> errorMessage, thrown |-> 0, branch |-> "none"]

generateStep(phase, attempt, prompt, resp) ==
    generateOutcome(phase, attempt, prompt, resp).move

\* ===================================================================
\* src/App.tsx
\* ===================================================================

\* generatePrompt, lines 185-199 (the template of lines 191-198)
generatePrompt(character) ==
    << [lead |-> "Dress them in the following PUBG outfit:", quoted |-> character],
       [lead |-> "Place them in the following scene:", quoted |-> 0] >>

\* The status map with no key (useState({}), setGeneratedImages({}))
NoImages == [l \in Labels |-> "none"]

NoneDone == [l \in Labels |-> 0]

\* handleImageUpload, lines 159-167: the outfits are the first
\* NUM_IMAGES_TO_GENERATE entries of a shuffle of the pool
BatchSize == Min(NUM_IMAGES_TO_GENERATE, NumLabels)

ItemLists ==
    {s \in [1..BatchSize -> Labels] : \A i, j \in 1..BatchSize : s[i] = s[j] => i = j}

\* A generateCharacterImage invocation in flight, suspended at the remote
\* call (pc "api") or at the backoff timer (pc "delay") of withRetry.
\* owner "batch": awaited by processItem of worker `worker`; owner "regen":
\* awaited by handleRegenerateCharacter, id = the request's number.
NewCall(owner, id, worker, label) ==
    [owner |-> owner, id |-> id, worker |-> worker, label |-> label,
     phase |-> "primary", attempt |-> 1, pc |-> "api", epoch |-> resets]

\* WorkerLoop with processItem not awaited: the worker runs through the whole
\* queue at once and returns.
WorkerLoopNoAwait(w, b) ==
    [queue |-> <<>>,
     running |-> b.running \ {w},
     calls |-> b.calls \cup {NewCall("batch", item, w, item) : item \in Range(b.queue)},
     performed |-> [l \in Labels |->
                      IF l \in Range(b.queue) THEN b.performed[l] + 1 ELSE b.performed[l]]]

\* WorkerLoop with pop() in the place of shift(): the worker takes the last
\* item of the queue.
WorkerLoopPop(w, b) ==
    IF Len(b.queue) > 0
    THEN LET item == b.queue[Len(b.queue)] IN
         [queue |-> SubSeq(b.queue, 1, Len(b.queue) - 1),
          running |-> b.running,
          calls |-> b.calls \cup {NewCall("batch", item, w, item)},
          performed |-> [b.performed EXCEPT ![item] = @ + 1]]
    ELSE [b EXCEPT !.running = @ \ {w}]

\* One pass of a worker through the head of its loop, lines 235-239, on the
\* batch state b = [queue, running, calls, performed]: it shifts the next item
\* and suspends in processItem, or finds the queue empty and returns.
WorkerLoop(w, b) ==
    IF Len(b.queue) > 0
    THEN LET item == Head(b.queue) IN
         [queue |-> Tail(b.queue),
          running |-> b.running,
          calls |-> b.calls \cup {NewCall("batch", item, w, item)},
          performed |-> [b.performed EXCEPT ![item] = @ + 1]]
    ELSE [b EXCEPT !.running = @ \ {w}]

\* StartWorkers with a dequeue that is not atomic: every worker reads the head
\* of the queue before any of them has removed it.
StartWorkersRacy(w, b) ==
    IF Len(b.queue) = 0 THEN [b EXCEPT !.running = {}]
    ELSE LET item == Head(b.queue)
             n == Min(concurrencyLimit - w + 1, Len(b.queue))
         IN  [queue |-> SubSeq(b.queue, n + 1, Len(b.queue)),
              running |-> b.running,
              calls |-> b.calls \cup {NewCall("batch", item, v, item) : v \in w..concurrencyLimit},
              performed |-> [b.performed EXCEPT ![item] = @ + (concurrencyLimit - w + 1)]]

\* Array(concurrencyLimit).fill(null).map(async () => ...), line 234: the
\* workers w..concurrencyLimit start one after the other, each running up to
\* its first await.
RECURSIVE StartWorkers(_, _)
StartWorkers(w, b) ==
    IF w > concurrencyLimit THEN b ELSE StartWorkers(w + 1, WorkerLoop(w, b))

\* BatchResolved with Promise.race in the place of Promise.all: the batch goes
\* on as soon as one worker has returned.
BatchResolvedRace(running) == running # 1..concurrencyLimit

\* await Promise.all(workers), lines 243-246: TRUE when the batch whose
\* workers `running` are still unresolved goes on to its last two lines
BatchResolved(running) == running = {}

\* The state of the isolated withRetry invocation while the application runs
RtIdle == [pc |-> "off"]

Init ==
    /\ appState = "idle"
    /\ uploadedImage = "null"
    /\ generatedImages = NoImages
    /\ isLoading = FALSE
    /\ generationItems = <<>>
    /\ generationTriggered = FALSE
    /\ analysis = "none"
    /\ itemsQueue = <<>>
    /\ workersRunning = {}
    /\ calls = {}
    /\ uploads = 0
    /\ regens = 0
    /\ refused = 0
    /\ resets = 0
    /\ performed = NoneDone
    /\ rt = RtIdle
    /\ album = "none"

\* handleImageUpload, lines 139-147, with the FileReader's load folded in: the
\* file input is rendered in 'idle' only (lines 423-443); detectGender is
\* called with the data URL read, which matches its pattern ("ok") or does
\* not ("bad").
handleImageUpload(url) ==
    /\ appState = "idle"
    /\ uploads < MaxUploads
    /\ appState' = "analyzing"
    /\ analysis' = IF matchDataUrl(url) THEN "ok" ELSE "bad"
    /\ uploads' = uploads + 1
    /\ UNCHANGED <<uploadedImage, generatedImages, isLoading, generationItems,
                   generationTriggered, itemsQueue, workersRunning, calls,
                   regens, refused, resets, performed, rt, album>>

\* detectGender throws on a data URL of another format (geminiService.ts:
\* 174-177); handleImageUpload's catch, lines 175-179
AnalysisFails ==
    /\ analysis = "bad"
    /\ analysis' = "none"
    /\ appState' = "idle"
    /\ UNCHANGED <<uploadedImage, generatedImages, isLoading, generationItems,
                   generationTriggered, itemsQueue, workersRunning, calls,
                   uploads, regens, refused, resets, performed, rt, album>>

\* EffectFires without the test of generationTriggered.current
EffectFiresUnguarded(state, image, triggered) ==
    state = "generating" /\ image # "null"

\* The effect of lines 130-136, on the state a render commits
EffectFires(state, image, triggered) ==
    state = "generating" /\ image # "null" /\ ~triggered

\* handleGenerateClick's guard, line 203
GenerateGuard(image, items) == image # "null" /\ Len(items) # 0

\* initialImages left empty
initialImagesEmpty(items) == [l \in Labels |-> "none"]

\* handleGenerateClick, lines 207-211: the status map that is set before the
\* workers are created
initialImages(items) ==
    [l \in Labels |-> IF l \in Range(items) THEN "pending" ELSE "none"]

\* detectGender resolves (to any of its three values); handleImageUpload,
\* lines 148-174, then the effect and handleGenerateClick, lines 202-243, up
\* to its await.
AnalysisDone(items) ==
    /\ analysis = "ok"
    /\ analysis' = "none"
    /\ generationItems' = items
    /\ uploadedImage' = "ok"
    /\ LET fires == EffectFires("generating", "ok", FALSE)
           runs == fires /\ GenerateGuard("ok", items)
           b == StartWorkers(1, [queue |-> items, running |-> 1..concurrencyLimit,
                                 calls |-> calls, performed |-> NoneDone])
       IN  /\ generationTriggered' = fires
           /\ IF runs
              THEN /\ generatedImages' = initialImages(items)
                   /\ itemsQueue' = b.queue
                   /\ workersRunning' = b.running
                   /\ calls' = b.calls
                   /\ performed' = b.performed
                   /\ isLoading' = ~BatchResolved(b.running)
                   /\ appState' = IF BatchResolved(b.running) THEN "results-shown"
                                                            ELSE "generating"
              ELSE /\ generatedImages' = NoImages
                   /\ appState' = "generating"
                   /\ UNCHANGED <<itemsQueue, workersRunning, calls, performed, isLoading>>
    /\ UNCHANGED <<uploads, regens, refused, resets, rt, album>>

\* Settle with `if` in the place of the worker's `while`: the worker returns
\* after its first item.
SettleNoLoop(c, st) ==
    /\ generatedImages' = [generatedImages EXCEPT ![c.label] = st]
    /\ calls' = calls \ {c}
    /\ IF c.owner = "batch"
       THEN /\ workersRunning' = workersRunning \ {c.worker}
            /\ IF BatchResolved(workersRunning \ {c.worker})
               THEN isLoading' = FALSE /\ appState' = "results-shown"
               ELSE UNCHANGED <<isLoading, appState>>
       ELSE UNCHANGED <<workersRunning, isLoading, appState>>
    /\ UNCHANGED <<uploadedImage, generationItems, generationTriggered, analysis,
                   itemsQueue, performed, uploads, regens, refused, resets, rt, album>>

\* Settle with processItem's catch throwing the error on: the status is
\* written, the worker's promise rejects and so does Promise.all.
SettleStopOnError(c, st) ==
    /\ generatedImages' = [generatedImages EXCEPT ![c.label] = st]
    /\ IF c.owner = "batch" /\ st = "done"
       THEN LET b == WorkerLoop(c.worker, [queue |-> itemsQueue, running |-> workersRunning,
                                           calls |-> calls \ {c}, performed |-> performed])
            IN  /\ itemsQueue' = b.queue
                /\ workersRunning' = b.running
                /\ calls' = b.calls
                /\ performed' = b.performed
                /\ IF BatchResolved(b.running)
                   THEN isLoading' = FALSE /\ appState' = "results-shown"
                   ELSE UNCHANGED <<isLoading, appState>>
       ELSE /\ calls' = calls \ {c}
            /\ UNCHANGED <<itemsQueue, workersRunning, performed, isLoading, appState>>
    /\ UNCHANGED <<uploadedImage, generationItems, generationTriggered, analysis,
                   uploads, regens, refused, resets, rt, album>>

\* Settle with the updater returning { [label]: ... } without `...prev`: the
\* entries of the other labels are dropped.
SettleOverwrite(c, st) ==
    /\ generatedImages' = [l \in Labels |-> IF l = c.label THEN st ELSE "none"]
    /\ IF c.owner = "batch"
       THEN LET b == WorkerLoop(c.worker, [queue |-> itemsQueue, running |-> workersRunning,
                                           calls |-> calls \ {c}, performed |-> performed])
            IN  /\ itemsQueue' = b.queue
                /\ workersRunning' = b.running
                /\ calls' = b.calls
                /\ performed' = b.performed
                /\ IF BatchResolved(b.running)
                   THEN isLoading' = FALSE /\ appState' = "results-shown"
                   ELSE UNCHANGED <<isLoading, appState>>
       ELSE /\ calls' = calls \ {c}
            /\ UNCHANGED <<itemsQueue, workersRunning, performed, isLoading, appState>>
    /\ UNCHANGED <<uploadedImage, generationItems, generationTriggered, analysis,
                   uploads, regens, refused, resets, rt, album>>

\* The continuation of `await generateCharacterImage` once the invocation c
\* has settled with status st ("done" | "error").
\* owner "batch": processItem, lines 220-231, then the worker's loop, lines
\* 235-240, then Promise.all and lines 245-246 when the last worker returns.
\* owner "regen": handleRegenerateCharacter, lines 272-282.
Settle(c, st) ==
    /\ generatedImages' = [generatedImages EXCEPT ![c.label] = st]
    /\ IF c.owner = "batch"
       THEN LET b == WorkerLoop(c.worker, [queue |-> itemsQueue, running |-> workersRunning,
                                           calls |-> calls \ {c}, performed |-> performed])
            IN  /\ itemsQueue' = b.queue
                /\ workersRunning' = b.running
                /\ calls' = b.calls
                /\ performed' = b.performed
                /\ IF BatchResolved(b.running)
                   THEN isLoading' = FALSE /\ appState' = "results-shown"
                   ELSE UNCHANGED <<isLoading, appState>>
       ELSE /\ calls' = calls \ {c}
            /\ UNCHANGED <<itemsQueue, workersRunning, performed, isLoading, appState>>
    /\ UNCHANGED <<uploadedImage, generationItems, generationTriggered, analysis,
                   uploads, regens, refused, resets, rt, album>>

\* The remote call of invocation c comes back with resp
RemoteReturns(c, resp) ==
    /\ c \in calls
    /\ c.pc = "api"
    /\ LET move == generateStep(c.phase, c.attempt, generatePrompt(c.label), resp) IN
       CASE move = "delay" ->
              /\ calls' = (calls \ {c}) \cup {[c EXCEPT !.pc = "delay"]}
              /\ UNCHANGED <<appState, uploadedImage, generatedImages, isLoading,
                             generationItems, generationTriggered, analysis, itemsQueue,
                             workersRunning, uploads, regens, refused, resets, performed, rt, album>>
         [] move = "fallback" ->
              /\ calls' = (calls \ {c}) \cup {[c EXCEPT !.phase = "fallback", !.attempt = 1]}
              /\ UNCHANGED <<appState, uploadedImage, generatedImages, isLoading,
                             generationItems, generationTriggered, analysis, itemsQueue,
                             workersRunning, uploads, regens, refused, resets, performed, rt, album>>
         [] move = "resolve" -> Settle(c, "done")
         [] move = "reject" -> Settle(c, "error")

\* The backoff timer of invocation c expires (withRetry, lines 83-84)
BackoffElapsed(c) ==
    /\ c \in calls
    /\ c.pc = "delay"
    /\ calls' = (calls \ {c}) \cup {[c EXCEPT !.attempt = @ + 1, !.pc = "api"]}
    /\ UNCHANGED <<appState, uploadedImage, generatedImages, isLoading,
                   generationItems, generationTriggered, analysis, itemsQueue,
                   workersRunning, uploads, regens, refused, resets, performed, rt, album>>

\* RegenerateGuard without the test of lines 256-258
RegenerateGuardNoPending(character) ==
    /\ uploadedImage # "null"
    /\ character \in Range(generationItems)

\* handleRegenerateCharacter's guards, lines 250-258
RegenerateGuard(character) ==
    /\ uploadedImage # "null"
    /\ character \in Range(generationItems)
    /\ generatedImages[character] # "pending"

\* handleRegenerateCharacter, lines 249-271, up to its await; the cards that
\* call it are rendered in 'generating' and 'results-shown' (lines 452-486),
\* one per generation item.
handleRegenerateCharacter(character) ==
    /\ appState \in {"generating", "results-shown"}
    /\ character \in Range(generationItems)
    /\ IF RegenerateGuard(character)
       THEN /\ regens < MaxRegens
            /\ regens' = regens + 1
            /\ generatedImages' = [generatedImages EXCEPT ![character] = "pending"]
            /\ calls' = calls \cup {NewCall("regen", regens + 1, 0, character)}
            /\ UNCHANGED refused
       ELSE /\ refused < MaxRefused
            /\ refused' = refused + 1
            /\ UNCHANGED <<generatedImages, calls, regens>>
    /\ UNCHANGED <<appState, uploadedImage, isLoading, generationItems,
                   generationTriggered, analysis, itemsQueue, workersRunning,
                   uploads, resets, performed, rt, album>>

\* handleReset, lines 286-293; its button is rendered in 'results-shown'
\* only (lines 489-500)
handleReset ==
    /\ appState = "results-shown"
    /\ uploadedImage' = "null"
    /\ generatedImages' = NoImages
    /\ generationItems' = <<>>
    /\ appState' = "idle"
    /\ generationTriggered' = FALSE
    /\ resets' = resets + 1
    /\ album' = "none"
    /\ UNCHANGED <<isLoading, analysis, itemsQueue, workersRunning, calls,
                   uploads, regens, refused, performed, rt>>

\* The entries of the status map that pass the filter of lines 310-311 and
\* 379-380 (Object.entries(generatedImages), status 'done')
imageData == {l \in Labels : generatedImages[l] = "done"}

\* handleDownloadAlbum, line 317: TRUE when the handler goes on to
\* createAlbumPage
handleDownloadAlbumGuard == ~(Cardinality(imageData) < Len(generationItems))

\* handleShareAlbum, line 386
handleShareAlbumGuard == Cardinality(imageData) # 0

\* handleDownloadAlbum, lines 307-323, up to its await; its button is
\* rendered in 'results-shown' only (lines 489-493). When the guard fails the
\* handler alerts and returns.
handleDownloadAlbum ==
    /\ appState = "results-shown"
    /\ album' = IF handleDownloadAlbumGuard THEN "download" ELSE album
    /\ UNCHANGED <<appState, uploadedImage, generatedImages, isLoading,
                   generationItems, generationTriggered, analysis, itemsQueue,
                   workersRunning, calls, uploads, regens, refused, resets,
                   performed, rt>>

\* handleShareAlbum, lines 375-391, up to its await; its button is rendered
\* in 'results-shown' only (lines 489-496)
handleShareAlbum ==
    /\ appState = "results-shown"
    /\ album' = IF handleShareAlbumGuard THEN "share" ELSE album
    /\ UNCHANGED <<appState, uploadedImage, generatedImages, isLoading,
                   generationItems, generationTriggered, analysis, itemsQueue,
                   workersRunning, calls, uploads, regens, refused, resets,
                   performed, rt>>

Next ==
    \/ \E url \in DataUrls : handleImageUpload(url)
    \/ AnalysisFails
    \/ \E items \in ItemLists : AnalysisDone(items)
    \/ \E c \in calls, resp \in AppResponses : RemoteReturns(c, resp)
    \/ \E c \in calls : BackoffElapsed(c)
    \/ \E character \in Labels : handleRegenerateCharacter(character)
    \/ handleReset
    \/ handleDownloadAlbum
    \/ handleShareAlbum

Spec == Init /\ [][Next]_vars

\* Every remote call comes back and every backoff timer expires
CallsProgress ==
    \/ \E c \in calls, resp \in AppResponses : RemoteReturns(c, resp)
    \/ \E c \in calls : BackoffElapsed(c)

FairSpec == Spec /\ WF_vars(CallsProgress)

\* The label of the batch task whose generation call may hang. The item lists
\* range over every order of the labels, so the task is met at every
\* position of the queue and with either worker.
HungLabel == CHOOSE l \in Labels : TRUE

\* Every remote call but the batch call of HungLabel comes back, and every
\* backoff timer but that call's expires
OtherCallsProgress ==
    \E c \in calls :
        /\ ~(c.owner = "batch" /\ c.label = HungLabel)
        /\ \/ \E resp \in AppResponses : RemoteReturns(c, resp)
           \/ BackoffElapsed(c)

\* The application with no promise that the batch call of HungLabel returns
HangSpec == Spec /\ WF_vars(OtherCallsProgress)

\* ===================================================================
\* One withRetry invocation on its own (geminiService.ts:62-97), driven
\* with every sequence of responses of the remote call.
\*   rt.attempt  the loop variable
\*   rt.pc       "api": awaiting apiCall(); "delay": awaiting the backoff
\*               timer; "returned" / "thrown": the invocation is over
\*   rt.log      the responses of the attempts made so far (history)
\*   rt.delays   the backoff delays incurred so far (history)
\*   rt.thrown   the error the invocation has thrown, 0 before
\*   rt.waits    the length in ms of each backoff delay (history)
\* ===================================================================

InitRetry ==
    /\ appState = "idle"
    /\ uploadedImage = "null"
    /\ generatedImages = NoImages
    /\ isLoading = FALSE
    /\ generationItems = <<>>
    /\ generationTriggered = FALSE
    /\ analysis = "none"
    /\ itemsQueue = <<>>
    /\ workersRunning = {}
    /\ calls = {}
    /\ uploads = 0
    /\ regens = 0
    /\ refused = 0
    /\ resets = 0
    /\ performed = NoneDone
    /\ album = "none"
    /\ rt = [pc |-> "api", attempt |-> 1, log |-> <<>>, delays |-> 0, thrown |-> 0,
             waits |-> <<>>]

\* apiCall() of attempt rt.attempt settles with resp: lines 67-93; jitter is
\* the value drawn at line 81 when a delay follows
RetryReturns(resp, jitter) ==
    /\ rt.pc = "api"
    /\ LET w == withRetryStep(rt.attempt, resp) IN
       rt' = [rt EXCEPT !.log = Append(@, resp),
                        !.pc = CASE w = "return" -> "returned"
                                 [] w = "delay" -> "delay"
                                 [] w = "throw" -> "thrown",
                        !.delays = IF w = "delay" THEN @ + 1 ELSE @,
                        !.waits = IF w = "delay"
                                  THEN Append(@, backoffDelay(rt.attempt, jitter)) ELSE @,
                        !.thrown = IF w = "throw" THEN withRetryThrown(resp) ELSE @]
    /\ UNCHANGED appVars

\* The backoff timer expires, line 83; `continue`, line 84, then the loop's
\* test, line 66, and the throw of line 96 when the loop is left
RetryBackoff ==
    /\ rt.pc = "delay"
    /\ rt' = IF rt.attempt + 1 <= maxRetries
             THEN [rt EXCEPT !.attempt = @ + 1, !.pc = "api"]
             ELSE [rt EXCEPT !.attempt = @ + 1, !.pc = "thrown",
                             !.thrown = [kind |-> "error", status |-> 0, message |-> <<>>]]
    /\ UNCHANGED appVars

NextRetry ==
    \/ \E resp \in Responses, jitter \in Jitters : RetryReturns(resp, jitter)
    \/ RetryBackoff

SpecRetry == InitRetry /\ [][NextRetry]_vars

\* ===================================================================
\* One generateCharacterImage invocation on its own
\* (geminiService.ts:107-166), driven with every sequence of responses.
\*   rt.url, rt.prompt  the arguments
\*   rt.phase     "primary" | "fallback": the try block being run
\*   rt.attempt   the loop variable of the withRetry invocation of the phase
\*   rt.pc        "api" | "delay" | "resolved" | "rejected"
\*   rt.caught    the message of the error caught at line 130, 0 before
\*   rt.thrown    the message of the error the invocation has thrown
\*   rt.branch    the throw statement taken
\*   rt.sent      the prompt of each withRetry invocation started (history)
\*   rt.log       phase and response of every remote call made (history)
\*   rt.delays    the backoff delays incurred so far (history)
\* ===================================================================

\* The application's state while a service invocation runs on its own
AppOff ==
    /\ appState = "idle"
    /\ uploadedImage = "null"
    /\ generatedImages = NoImages
    /\ isLoading = FALSE
    /\ generationItems = <<>>
    /\ generationTriggered = FALSE
    /\ analysis = "none"
    /\ itemsQueue = <<>>
    /\ workersRunning = {}
    /\ calls = {}
    /\ uploads = 0
    /\ regens = 0
    /\ refused = 0
    /\ resets = 0
    /\ performed = NoneDone
    /\ album = "none"

\* The prompts the invocation is called with: the application's, for two
\* labels; prompts that hold the marker, first or after another clause; a
\* prompt with two marker clauses; prompts whose first marker clause quotes
\* nothing; the empty prompt
GenPrompts ==
    { generatePrompt(1),
      generatePrompt(2),
      << [lead |-> MARKER, quoted |-> 1] >>,
      << [lead |-> "Place them in the following scene:", quoted |-> 0],
         [lead |-> MARKER, quoted |-> 2] >>,
      << [lead |-> MARKER, quoted |-> 2], [lead |-> MARKER, quoted |-> 1] >>,
      << [lead |-> MARKER, quoted |-> EmptyString] >>,
      << [lead |-> MARKER, quoted |-> EmptyString], [lead |-> MARKER, quoted |-> 1] >>,
      << >> }

\* generateCharacterImage, lines 107-122: up to the first await
generateStart(url, prompt) ==
    IF matchDataUrl(url)
    THEN [pc |-> "api", phase |-> "primary", attempt |-> 1, url |-> url,
          prompt |-> prompt, caught |-> 0, thrown |-> 0, branch |-> "none",
          sent |-> <<prompt>>, log |-> <<>>, delays |-> 0]
    ELSE [pc |-> "rejected", phase |-> "primary", attempt |-> 0, url |-> url,
          prompt |-> prompt, caught |-> 0,
          thrown |-> <<"Invalid image data URL format. Expected 'data:image/...;base64,...'">>,
          branch |-> "invalid-url", sent |-> <<>>, log |-> <<>>, delays |-> 0]

InitGenerate ==
    /\ AppOff
    /\ rt \in {generateStart(url, prompt) : url \in DataUrls, prompt \in GenPrompts}

\* The remote call of the invocation comes back with resp
GenerateReturns(resp) ==
    /\ rt.pc = "api"
    /\ LET o == generateOutcome(rt.phase, rt.attempt, rt.prompt, resp)
           logged == [rt EXCEPT !.log = Append(@, [phase |-> rt.phase, resp |-> resp])]
       IN  rt' = CASE o.move = "delay" ->
                       [logged EXCEPT !.pc = "delay", !.delays = @ + 1]
                   [] o.move = "resolve" ->
                       [logged EXCEPT !.pc = "resolved"]
                   [] o.move = "fallback" ->
                       [logged EXCEPT !.phase = "fallback", !.attempt = 1,
                                      !.caught = o.caught,
                                      !.sent = Append(@, getFallbackPrompt(
                                                           extractCharacter(rt.prompt)))]
                   [] o.move = "reject" ->
                       [logged EXCEPT !.pc = "rejected", !.thrown = o.thrown,
                                      !.branch = o.branch,
                                      !.caught = IF rt.phase = "primary" THEN o.caught ELSE @]
    /\ UNCHANGED appVars

\* The backoff timer of the invocation expires (withRetry, lines 83-84)
GenerateBackoff ==
    /\ rt.pc = "delay"
    /\ rt' = [rt EXCEPT !.attempt = @ + 1, !.pc = "api"]
    /\ UNCHANGED appVars

NextGenerate ==
    \/ \E resp \in GenResponses : GenerateReturns(resp)
    \/ GenerateBackoff

SpecGenerate == InitGenerate /\ [][NextGenerate]_vars

\* ===================================================================
\* One detectGender invocation on its own (geminiService.ts:173-208).
\*   rt.url      the argument
\*   rt.attempt  the loop variable of withRetry
\*   rt.pc       "api" | "delay" | "resolved" | "rejected"
\*   rt.result   the value the promise resolved to, "none" before
\*   rt.log      the responses of the remote calls made (history)
\*   rt.delays   the backoff delays incurred so far (history)
\* ===================================================================

\* detectGender, lines 173-188: up to the first await
genderStart(url) ==
    [pc |-> IF matchDataUrl(url) THEN "api" ELSE "rejected",
     attempt |-> IF matchDataUrl(url) THEN 1 ELSE 0,
     url |-> url, result |-> "none", log |-> <<>>, delays |-> 0]

InitGender ==
    /\ AppOff
    /\ rt \in {genderStart(url) : url \in DataUrls}

\* The remote call comes back with resp: withRetry, then lines 193-206
GenderReturns(resp) ==
    /\ rt.pc = "api"
    /\ LET w == withRetryStep(rt.attempt, resp)
           logged == [rt EXCEPT !.log = Append(@, resp)]
       IN  rt' = CASE w = "delay" -> [logged EXCEPT !.pc = "delay", !.delays = @ + 1]
                   [] w = "return" -> [logged EXCEPT !.pc = "resolved",
                                                     !.result = genderOf(resp)]
                   [] w = "throw" -> [logged EXCEPT !.pc = "resolved",
                                                    !.result = "Unknown"]
    /\ UNCHANGED appVars

\* The backoff timer expires (withRetry, lines 83-84)
GenderBackoff ==
    /\ rt.pc = "delay"
    /\ rt' = [rt EXCEPT !.attempt = @ + 1, !.pc = "api"]
    /\ UNCHANGED appVars

NextGender ==
    \/ \E resp \in GenderResponses : GenderReturns(resp)
    \/ GenderBackoff

SpecGender == InitGender /\ [][NextGender]_vars

\* ===================================================================
\* One createAlbumPage invocation on its own (src/unnamed/part_000, the
\* module App.tsx imports as ./lib/albumUtils).
\* Lengths are in hundredths of a pixel, which makes every quotient of
\* lines 65-94 exact. The rotation of a card (line 102) and the image drawn
\* inside its frame (lines 121-138) are left out: a card is its unrotated
\* frame (line 113) and its caption (line 150).
\*   rt.characters  Object.keys(imageData), line 51
\*   rt.ctx         whether getContext('2d') returned a context
\*   rt.status      per image: "loading" | "loaded" | "failed"
\*   rt.pc          "loading" | "resolved" | "rejected"
\*   rt.drawn       the cards drawn so far, in drawing order
\*   rt.result      "none" or "jpeg" (the data URL returned)
\* ===================================================================

Px(n) == 100 * n

\* line 62
grid == [cols |-> 2, rows |-> 3, padding |-> 100]

\* lines 64-66
contentHeight == Px(canvasHeight) - Px(contentTopMargin)

cellWidth == (Px(canvasWidth) - Px(grid.padding) * (grid.cols + 1)) \div grid.cols

cellHeight == (contentHeight - Px(grid.padding) * (grid.rows + 1)) \div grid.rows

\* cardSize without the test of lines 75-78
cardSizeUnclamped ==
    LET maxCardWidth == (cellWidth * 9) \div 10 IN
    [w |-> maxCardWidth, h |-> (maxCardWidth * 5) \div 4]

\* cardSize with the height capped and the width left as it was (line 77
\* missing)
cardSizeNoRatio ==
    LET maxCardWidth == (cellWidth * 9) \div 10
        maxCardHeight == (cellHeight * 9) \div 10
        cardHeight == (maxCardWidth * 5) \div 4
    IN  IF cardHeight > maxCardHeight
        THEN [w |-> maxCardWidth, h |-> maxCardHeight]
        ELSE [w |-> maxCardWidth, h |-> cardHeight]

\* lines 68-78: cardAspectRatio 1.25 = 5/4, the factor 0.9 = 9/10
cardSize ==
    LET maxCardWidth == (cellWidth * 9) \div 10
        maxCardHeight == (cellHeight * 9) \div 10
        cardWidth == maxCardWidth
        cardHeight == (cardWidth * 5) \div 4
    IN  IF cardHeight > maxCardHeight
        THEN [w |-> (maxCardHeight * 4) \div 5, h |-> maxCardHeight]
        ELSE [w |-> cardWidth, h |-> cardHeight]

\* originalIndex with the reversed index taken for the index
originalIndexSame(n, reversedIndex) == reversedIndex

\* line 87
originalIndex(n, reversedIndex) == n - 1 - reversedIndex

\* lines 85-94 and 113, 150: the card drawn at position reversedIndex of the
\* reversed list, for the keys `characters`
drawCard(characters, reversedIndex) ==
    LET index == originalIndex(Len(characters), reversedIndex)
        row == index \div grid.cols
        col == index % grid.cols
    IN  [character |-> characters[Len(characters) - reversedIndex],
         index |-> index, row |-> row, col |-> col,
         x |-> Px(grid.padding) * (col + 1) + cellWidth * col
                 + (cellWidth - cardSize.w) \div 2,
         y |-> Px(contentTopMargin) + Px(grid.padding) * (row + 1) + cellHeight * row
                 + (cellHeight - cardSize.h) \div 2,
         w |-> cardSize.w, h |-> cardSize.h]

\* reversedImages.forEach, lines 84-153
drawCards(characters) ==
    [k \in 1..Len(characters) |-> drawCard(characters, k - 1)]

\* afterLoad with the cards drawn as soon as one image has loaded
afterLoadEager(status) ==
    IF \E i \in DOMAIN status : status[i] = "loaded" THEN "resolved" ELSE "loading"

\* await Promise.all(...), lines 52-54: the promise rejects with the first
\* image that fails and resolves when every image has loaded
afterLoad(status) ==
    IF \E i \in DOMAIN status : status[i] = "failed" THEN "rejected"
    ELSE IF \A i \in DOMAIN status : status[i] = "loaded" THEN "resolved"
    ELSE "loading"

\* lines 35-48: what is drawn on the canvas before the images are loaded
header == <<"fillRect #111111", "PUBG LOBBY", "Generated on Google AI Studio">>

\* createAlbumStart with an empty image set turned down by a throw
createAlbumStartRejectEmpty(n, ctx) ==
    LET characters == [i \in 1..n |-> i] IN
    [characters |-> characters, ctx |-> ctx,
     status |-> [i \in 1..n |-> IF ctx /\ n # 0 THEN "loading" ELSE "unrequested"],
     pc |-> IF ~ctx \/ n = 0 THEN "rejected" ELSE "loading",
     page |-> <<>>,
     drawn |-> <<>>,
     result |-> "none"]

\* createAlbumPage, lines 22-54, for n images: up to the await, and through
\* to the end when there is nothing to wait for
createAlbumStart(n, ctx) ==
    LET characters == [i \in 1..n |-> i] IN
    [characters |-> characters, ctx |-> ctx,
     status |-> [i \in 1..n |-> IF ctx THEN "loading" ELSE "unrequested"],
     pc |-> IF ~ctx THEN "rejected" ELSE IF n = 0 THEN "resolved" ELSE "loading",
     page |-> IF ctx THEN header ELSE <<>>,
     drawn |-> <<>>,
     result |-> IF ctx /\ n = 0 THEN "jpeg" ELSE "none"]

InitAlbum ==
    /\ AppOff
    /\ rt \in {createAlbumStart(n, ctx) : n \in 0..MaxImages, ctx \in BOOLEAN}

\* An image settles (loadImage, lines 11-12), then the continuation of
\* createAlbumPage, lines 56-156, when Promise.all settles with it
ImageSettles(i, outcome) ==
    /\ i \in DOMAIN rt.status
    /\ rt.status[i] = "loading"
    /\ LET status == [rt.status EXCEPT ![i] = outcome]
           pc == IF rt.pc = "loading" THEN afterLoad(status) ELSE rt.pc
           draws == rt.pc = "loading" /\ pc = "resolved"
       IN  rt' = [rt EXCEPT !.status = status,
                            !.pc = pc,
                            !.drawn = IF draws THEN drawCards(rt.characters) ELSE @,
                            !.result = IF draws THEN "jpeg" ELSE @]
    /\ UNCHANGED appVars

\* img.onload, line 11
ImageLoads(i) == ImageSettles(i, "loaded")

\* img.onerror, line 12
ImageFails(i) == ImageSettles(i, "failed")

NextAlbum ==
    \/ \E i \in 1..MaxImages : ImageLoads(i)
    \/ \E i \in 1..MaxImages : ImageFails(i)

SpecAlbum == InitAlbum /\ [][NextAlbum]_vars

(***************************************************************************)
(* createAlbumPage, lines 80-81 and 121-150: the image and the caption     *)
(* inside a card, in exact rational arithmetic.  A length is a fraction    *)
(* [n, d] of a pixel in lowest terms, d > 0; coordinates are those of the  *)
(* translated context (line 99), whose origin is the centre of the card.   *)
(***************************************************************************)
Abs(a) == IF a < 0 THEN -a ELSE a

RECURSIVE GCD(_, _)
GCD(a, b) == IF b = 0 THEN a ELSE GCD(b, a % b)

LCM(a, b) == (a \div GCD(a, b)) * b

Rat(n, d) ==
    LET g == GCD(Abs(n), Abs(d))
        s == IF d < 0 THEN -1 ELSE 1
    IN  [n |-> (s * n) \div g, d |-> (s * d) \div g]

RAdd(a, b) ==
    LET l == LCM(a.d, b.d) IN Rat(a.n * (l \div a.d) + b.n * (l \div b.d), l)

RNeg(a) == [n |-> -a.n, d |-> a.d]

RSub(a, b) == RAdd(a, RNeg(b))

RMul(a, b) ==
    LET x == Rat(a.n, b.d)
        y == Rat(b.n, a.d)
    IN  [n |-> x.n * y.n, d |-> x.d * y.d]

RDiv(a, b) == RMul(a, Rat(b.d, b.n))

RLe(a, b) ==
    LET l == LCM(a.d, b.d) IN a.n * (l \div a.d) <= b.n * (l \div b.d)

RLt(a, b) == ~RLe(b, a)

\* lines 72-78, in pixels
cardWidth == Rat(cardSize.w, Px(1))

cardHeight == Rat(cardSize.h, Px(1))

\* lines 80-81: the factors 0.9 = 9/10 and 1.1 = 11/10
imageContainerWidth == RMul(cardWidth, Rat(9, 10))

imageContainerHeight == RMul(imageContainerWidth, Rat(11, 10))

\* drawSize without the test of lines 126-129
drawSizeUnclamped(naturalWidth, naturalHeight) ==
    [w |-> imageContainerWidth,
     h |-> RDiv(imageContainerWidth, Rat(naturalWidth, naturalHeight))]

\* lines 122-129
drawSize(naturalWidth, naturalHeight) ==
    LET aspectRatio == Rat(naturalWidth, naturalHeight)
        drawWidth == imageContainerWidth
        drawHeight == RDiv(drawWidth, aspectRatio)
    IN  IF RLt(imageContainerHeight, drawHeight)
        THEN [w |-> RMul(imageContainerHeight, aspectRatio), h |-> imageContainerHeight]
        ELSE [w |-> drawWidth, h |-> drawHeight]

\* line 132: the divisor 2.5 = 5/2
imageAreaTopMargin == RDiv(RSub(cardWidth, imageContainerWidth), Rat(5, 2))

\* line 133
imageContainerY == RAdd(RNeg(RDiv(cardHeight, Rat(2, 1))), imageAreaTopMargin)

\* lines 146-147
captionAreaTop == RAdd(imageContainerY, imageContainerHeight)

captionAreaBottom == RDiv(cardHeight, Rat(2, 1))

\* lines 122-138: the rectangle handed to ctx.drawImage for an image of the
\* given natural size
drawImage(naturalWidth, naturalHeight) ==
    LET size == drawSize(naturalWidth, naturalHeight) IN
    [x |-> RNeg(RDiv(size.w, Rat(2, 1))),
     y |-> RAdd(imageContainerY, RDiv(RSub(imageContainerHeight, size.h), Rat(2, 1))),
     w |-> size.w, h |-> size.h]

\* An image that has loaded (img.onload, line 11), before the body of the
\* forEach has drawn it
InitDraw ==
    /\ AppOff
    /\ rt \in {[pc |-> "loaded", naturalWidth |-> nw, naturalHeight |-> nh, drawn |-> <<>>] :
                 nw \in 1..MaxNatural, nh \in 1..MaxNatural}

\* The body of the forEach for one image, lines 121-150
DrawImage ==
    /\ rt.pc = "loaded"
    /\ rt' = [rt EXCEPT !.pc = "drawn",
                        !.drawn = <<drawImage(rt.naturalWidth, rt.naturalHeight)>>]
    /\ UNCHANGED appVars

NextDraw == DrawImage

SpecDraw == InitDraw /\ [][NextDraw]_vars

(***************************************************************************)
(* handleImageUpload, App.tsx lines 147-167: the loadout drawn once        *)
(* detectGender has resolved.  The shuffles of MAPS and SCENARIOS (lines   *)
(* 160-161) fill the other two fields of an item and are left out.         *)
(***************************************************************************)
\* App.tsx lines 12-21
COMMON_MALE_OUTFITS ==
    << "Iconic trench coat with a level 1 helmet",
       "White shirt, tie, and blue jeans from the loading screen",
       "Full tactical gear with a level 3 helmet and vest",
       "Ghillie suit for stealthy camouflage",
       "Biker jacket, ripped jeans, and combat boots",
       "Camo cargo pants and a dark t-shirt",
       "Padded jacket for cold weather maps",
       "Simple hoodie and jeans for a casual look" >>

\* App.tsx lines 23-32
COMMON_FEMALE_OUTFITS ==
    << "Pleated mini-skirt and white shirt (schoolgirl outfit)",
       "Leather hotpants and a cropped tank top",
       "Full tactical gear with a level 2 helmet and vest",
       "Plaid shirt, denim shorts, and combat boots",
       "Floral print dress for a surprising look on the battlefield",
       "Black turtleneck and tactical pants",
       "Ghillie suit for maximum concealment",
       "Sporty tracksuit with sneakers" >>

Genders == {"Male", "Female", "Unknown"}

\* The pools as the bounded run sees them
malePool == SubSeq(COMMON_MALE_OUTFITS, 1, Min(PoolLen, Len(COMMON_MALE_OUTFITS)))

femalePool == SubSeq(COMMON_FEMALE_OUTFITS, 1, Min(PoolLen, Len(COMMON_FEMALE_OUTFITS)))

\* lines 148-156: the array handed to the first shuffleArray call
poolSource(gender) ==
    IF gender = "Male" THEN malePool
    ELSE IF gender = "Female" THEN femalePool
    ELSE malePool \o femalePool

\* swap with the second assignment lost: newArray[i] = newArray[j] only
swapCopy(array, i, j) == [array EXCEPT ![i + 1] = array[j + 1]]

\* line 112: [newArray[i], newArray[j]] = [newArray[j], newArray[i]], on
\* 0-based indices
swap(array, i, j) == [array EXCEPT ![i + 1] = array[j + 1], ![j + 1] = array[i + 1]]

\* line 159 and lines 163-167: slice(0, NUM_IMAGES_TO_GENERATE), then one
\* item per outfit
itemsOf(array) ==
    [k \in 1..Min(NUM_IMAGES_TO_GENERATE, Len(array)) |-> [character |-> array[k]]]

\* shuffleArray, lines 108-110, entered with `array`: the copy and the loop
\* counter.  stage "pool": the shuffle of line 155; stage "outfits": the
\* shuffle of line 159.
shuffleStart(gender, stage, array) ==
    [pc |-> "shuffle", gender |-> gender, stage |-> stage,
     array |-> array, i |-> Len(array) - 1, items |-> <<>>]

\* detectGender has resolved with `gender`, lines 148-159
loadoutStart(gender) ==
    shuffleStart(gender, IF gender = "Unknown" THEN "pool" ELSE "outfits", poolSource(gender))

InitLoadout ==
    /\ AppOff
    /\ rt \in {loadoutStart(gender) : gender \in Genders}

\* One pass of the loop of shuffleArray, lines 110-113, with
\* j = Math.floor(Math.random() * (i + 1)); after the last pass the function
\* returns (line 114) to line 155 or to lines 159-167
ShuffleStep(j) ==
    /\ rt.pc = "shuffle"
    /\ rt.i > 0
    /\ j \in 0..rt.i
    /\ LET newArray == swap(rt.array, rt.i, j) IN
       rt' = IF rt.i > 1
             THEN [rt EXCEPT !.array = newArray, !.i = @ - 1]
             ELSE IF rt.stage = "pool"
             THEN shuffleStart(rt.gender, "outfits", newArray)
             ELSE [rt EXCEPT !.pc = "done", !.array = newArray, !.i = 0,
                             !.items = itemsOf(newArray)]
    /\ UNCHANGED appVars

NextLoadout == \E j \in 0..(2 * PoolLen - 1) : ShuffleStep(j)

SpecLoadout == InitLoadout /\ [][NextLoadout]_vars

\* ===================================================================
\* Properties
\* ===================================================================

BatchCalls == {c \in calls : c.owner = "batch"}

CallsFor(cs, l) == {c \in cs : c.label = l}

Terminal == {"done", "error"}

\* C1: during a batch run, the number of batch tasks that have been dequeued
\* and whose generation call has not resolved never exceeds 2.
C1_AtMostTwoInFlight == Cardinality(BatchCalls) <= 2

\* Two batch calls are in flight while a third task waits in the queue.
C1_Witness == Cardinality(BatchCalls) = 2 /\ Len(itemsQueue) >= 1

\* C2: every task of the batch is dequeued and performed exactly once: a task
\* still in the queue has not been performed, a task that left the queue has
\* been performed once, no task is performed twice, and a completed batch has
\* performed every task of its input list.
C2_ExactlyOnce ==
    /\ \A l \in Labels : performed[l] <= 1
    /\ appState \in {"generating", "results-shown"} =>
          \A l \in Range(generationItems) :
              performed[l] = IF l \in Range(itemsQueue) THEN 0 ELSE 1
    /\ appState = "results-shown" =>
          \A l \in Range(generationItems) : performed[l] = 1

\* A batch of at least three tasks has completed, every task performed once.
C2_Witness ==
    /\ appState = "results-shown"
    /\ Len(generationItems) >= 3
    /\ \A l \in Range(generationItems) : performed[l] = 1

\* C3: the batch run completes (isLoading false, appState 'results-shown')
\* only with the queue empty and no batch call in flight; while the batch is
\* loading the application is still 'generating'.
C3_CompletesWhenDrained ==
    /\ appState = "results-shown" =>
          /\ itemsQueue = <<>>
          /\ BatchCalls = {}
          /\ workersRunning = {}
          /\ ~isLoading
    /\ isLoading => appState = "generating"

\* A batch of at least three tasks has completed, with outcomes of both kinds.
C3_Witness ==
    /\ appState = "results-shown"
    /\ ~isLoading
    /\ Len(generationItems) >= 3
    /\ \E l \in Labels : generatedImages[l] = "done"
    /\ \E l \in Labels : generatedImages[l] = "error"

\* C4: if every remote call comes back (FairSpec), every task of a started
\* batch reaches Done or Error and the batch completes.
C4_BatchTerminates ==
    /\ \A l \in Labels :
          (appState = "generating" /\ l \in Range(generationItems))
             ~> (generatedImages[l] \in Terminal)
    /\ (appState = "generating") ~> (appState = "results-shown")

\* A batch of at least three tasks has completed and every task's status is
\* terminal.
C4_Witness ==
    /\ appState = "results-shown"
    /\ Len(generationItems) >= 3
    /\ \A l \in Range(generationItems) : generatedImages[l] \in Terminal
    /\ regens = 0

\* The invocation c of `cs` is no longer in flight in `cs2`
Settled(c, cs, cs2) ==
    /\ c \in cs
    /\ \A d \in cs2 : ~(d.owner = c.owner /\ d.id = c.id /\ d.epoch = c.epoch)

\* C5: a terminal failure of a batch task sets only that task's label to
\* Error; the worker that ran it dequeues the next task when one is queued;
\* no other label's status changes in that step; and the batch still
\* completes with every task performed.
C5_FailureIsolated ==
    /\ [][\A c \in BatchCalls :
            (Settled(c, calls, calls') /\ generatedImages'[c.label] = "error") =>
               /\ \A l \in Labels \ {c.label} : generatedImages'[l] = generatedImages[l]
               /\ itemsQueue # <<>> =>
                     /\ itemsQueue' = Tail(itemsQueue)
                     /\ \E d \in calls' : /\ d.owner = "batch"
                                          /\ d.worker = c.worker
                                          /\ d.label = Head(itemsQueue)
                                          /\ d.pc = "api"
               /\ itemsQueue = <<>> => c.worker \notin workersRunning'
               /\ appState' \in {"generating", "results-shown"}]_vars
    /\ (appState = "generating" /\ \E l \in Labels : generatedImages[l] = "error")
          ~> (appState = "results-shown"
                /\ \A l \in Range(generationItems) : performed[l] = 1)

\* The first two tasks of a batch of three failed, the batch completed and
\* its last task, dequeued after a failure, is Done.
C5_Witness ==
    /\ appState = "results-shown"
    /\ Len(generationItems) >= 3
    /\ generatedImages[generationItems[1]] = "error"
    /\ generatedImages[generationItems[2]] = "error"
    /\ generatedImages[generationItems[3]] = "done"
    /\ regens = 0

\* C6: handleRegenerateCharacter called for a label whose status is Pending
\* is a no-op: in a step of the handler no Pending label changes status or
\* gets a generation call, and a call that returns early leaves the status
\* map and the calls in flight unchanged.
C6_PendingRegenerateIsNoOp ==
    [][(regens' # regens \/ refused' # refused) =>
          /\ \A l \in Labels :
                generatedImages[l] = "pending" =>
                   /\ generatedImages'[l] = "pending"
                   /\ CallsFor(calls', l) = CallsFor(calls, l)
          /\ refused' # refused =>
                /\ generatedImages' = generatedImages
                /\ calls' = calls]_vars

\* A call was refused while a regeneration of a label is in flight and the
\* batch is still running with a task in its queue.
C6_Witness ==
    /\ refused = 1
    /\ appState = "generating"
    /\ \E c \in calls : c.owner = "regen" /\ generatedImages[c.label] = "pending"
    /\ itemsQueue # <<>>

\* C7 (as claimed): in every reachable state at most one generation call is
\* in flight for any given label.
C7_OneCallPerLabel ==
    \A l \in Labels : Cardinality(CallsFor(calls, l)) <= 1

\* Among the calls started since the last reset there is at most one per
\* label: the second call of a violation of C7 is always one that a reset
\* left in flight.
CurrentCallsExclusive ==
    \A l \in Labels :
        Cardinality({c \in CallsFor(calls, l) : c.epoch = resets}) <= 1

\* C8 (as claimed): the status of a label never steps from Done or Error
\* directly to the other of Done and Error.
C8_NoTerminalToTerminal ==
    [][\A l \in Labels :
          (generatedImages[l] \in Terminal /\ generatedImages'[l] \in Terminal)
             => generatedImages'[l] = generatedImages[l]]_vars

\* C9 (as claimed): the result of a generation call started before a reset
\* is dropped on arrival: the step in which it settles leaves generatedImages
\* unchanged.
C9_StaleResultDropped ==
    [][\A c \in calls :
          (c.epoch < resets /\ Settled(c, calls, calls'))
             => generatedImages' = generatedImages]_vars

\* The messages of Messages that contain "internal" in some letter case
InternalMessages ==
    { <<"i", "n", "t", "e", "r", "n", "a", "l">>,
      <<"I", "n", "t", "e", "r", "n", "a", "l">>,
      <<"a", " ", "I", "N", "T", "E", "R", "N", "A", "L", " ", "e">> }

Retriable(r) ==
    r.kind = "error" /\ (r.status = 500 \/ r.status = 503 \/ r.message \in InternalMessages)

\* C10: one withRetry invocation calls the remote call at most 3 times;
\* attempt k+1 is made only if attempt k failed with a retriable error; a
\* failure of the third attempt, retriable or not, is thrown at once, so an
\* invocation that is over has incurred one delay less than it made attempts;
\* a non-retriable failure and a success end the invocation.
C10_RetryPolicy ==
    LET n == Len(rt.log)
        made == IF rt.pc = "api" THEN n + 1 ELSE n
    IN  /\ made <= 3
        /\ \A k \in 1..(made - 1) : Retriable(rt.log[k])
        /\ rt.pc = "delay" => n < 3 /\ Retriable(rt.log[n]) /\ rt.delays = n
        /\ rt.pc \in {"returned", "thrown", "api"} => rt.delays = made - 1
        /\ (n = 3 /\ rt.log[3].kind = "error") => rt.pc = "thrown" /\ rt.delays = 2
        /\ (n >= 1 /\ ~Retriable(rt.log[n])) =>
              rt.pc = IF rt.log[n].kind = "error" THEN "thrown" ELSE "returned"

\* Three attempts were made, each failing with a retriable error (the first
\* by its message alone, in upper case), and the third failure was thrown.
C10_Witness ==
    /\ rt.pc = "thrown"
    /\ Len(rt.log) = 3
    /\ rt.delays = 2
    /\ rt.log[1].status = 0
    /\ rt.log[1].message = <<"a", " ", "I", "N", "T", "E", "R", "N", "A", "L", " ", "e">>
    /\ rt.log[2].status = 503
    /\ rt.log[3].status = 500

\* C11: a failure that is not retriable (status other than 500/503, message
\* without 'internal') ends the invocation at once: the error is thrown to the
\* caller as it is, no backoff delay follows it, and when it is the failure of
\* the first attempt the invocation has made one attempt and incurred no delay.
C11_NonRetriableNotRetried ==
    LET n == Len(rt.log) IN
    /\ (n >= 1 /\ rt.log[n].kind = "error" /\ ~Retriable(rt.log[n])) =>
          /\ rt.pc = "thrown"
          /\ rt.attempt = n
          /\ rt.thrown = rt.log[n]
          /\ rt.delays = n - 1
    /\ (n >= 1 /\ rt.log[1].kind = "error" /\ ~Retriable(rt.log[1])) =>
          n = 1 /\ rt.delays = 0 /\ rt.attempt = 1

\* The first attempt failed with status 429 and a message that stops one
\* letter short of 'internal'; the error was thrown after that one attempt.
C11_Witness ==
    /\ rt.pc = "thrown"
    /\ Len(rt.log) = 1
    /\ rt.delays = 0
    /\ rt.log[1].status = 429
    /\ rt.log[1].message = <<"i", "n", "t", "e", "r", "n", "a">>
    /\ rt.thrown = rt.log[1]

\* The prompt holds the marker followed by a quoted label: its first marker
\* clause quotes a label that is not empty
HoldsLabel(prompt) ==
    \E j \in 1..Len(prompt) :
        /\ prompt[j].lead = MARKER
        /\ prompt[j].quoted \in Labels
        /\ \A i \in 1..(j - 1) : prompt[i].lead # MARKER

\* The responses of the remote calls the invocation made in phase ph
PhaseLog(ph) == SelectSeq(rt.log, LAMBDA e : e.phase = ph)

\* C12: when the remote call for the primary prompt fails with a retriable
\* error k times in a row, k < 3, the invocation retries (it has incurred k
\* delays and is still in its primary phase), and when the call then returns
\* an image the invocation returns it after exactly k+1 attempts and k
\* delays, having sent the primary prompt only.
C12_SucceedsAfterRetries ==
    LET n == Len(rt.log) IN
    /\ \A k \in 1..2 :
          (n = k /\ \A i \in 1..k : Retriable(rt.log[i].resp)) =>
             /\ rt.pc \in {"delay", "api"}
             /\ rt.phase = "primary"
             /\ rt.delays = k
    /\ \A k \in 0..2 :
          (/\ n = k + 1
           /\ \A i \in 1..k : Retriable(rt.log[i].resp)
           /\ rt.log[n].resp.kind = "image") =>
             /\ rt.pc = "resolved"
             /\ rt.attempt = k + 1
             /\ rt.delays = k
             /\ rt.phase = "primary"
             /\ rt.sent = <<rt.prompt>>

\* Two retriable failures, one by its message alone and one by its status,
\* then an image: returned at the third attempt after two delays.
C12_Witness ==
    /\ rt.pc = "resolved"
    /\ Len(rt.log) = 3
    /\ rt.log[1].resp.status = 0
    /\ rt.log[1].resp.message = <<"I", "n", "t", "e", "r", "n", "a", "l">>
    /\ rt.log[2].resp.status = 503
    /\ rt.log[3].resp.kind = "image"
    /\ rt.delays = 2
    /\ Len(rt.sent) = 1

\* C13: a response with text and no image part is a content rejection, not a
\* transport error: whatever its text, it is the last remote call of its
\* phase and no delay follows it (the delays incurred are those of the failed
\* calls); for the primary prompt the error caught is the no-image error and
\* the invocation takes the fallback path (the fallback prompt is issued, or
\* the extraction of line 136 fails), never the throw of line 163.
C13_TextOnlyIsRejection ==
    LET n == Len(rt.log) IN
    /\ \A i \in 1..n :
          rt.log[i].resp.kind = "text" =>
             /\ i < n => rt.log[i].phase = "primary" /\ rt.log[i + 1].phase = "fallback"
             /\ i = n => rt.pc \in {"api", "rejected"}
             /\ rt.log[i].phase = "primary" =>
                   /\ rt.caught = noImageMessage(rt.log[i].resp)
                   /\ rt.branch # "details"
                   /\ IF HoldsLabel(rt.prompt)
                      THEN Len(rt.sent) = 2 /\ (i = n => rt.pc = "api" /\ rt.attempt = 1)
                      ELSE rt.pc = "rejected" /\ rt.branch = "no-label"
    /\ rt.pc # "delay" =>
          rt.delays = Cardinality({i \in 1..n : rt.log[i].resp.kind = "error"})
                        - (IF rt.pc = "rejected" /\ n >= 1 /\ rt.log[n].resp.kind = "error"
                           THEN 1 ELSE 0)

\* The primary prompt, which holds the marker, got a text-only response whose
\* text is 'Internal' at its first attempt: no delay was incurred and the
\* fallback prompt's first call is in flight.
C13_Witness ==
    /\ Len(rt.log) = 1
    /\ rt.log[1].resp.kind = "text"
    /\ rt.log[1].resp.message = <<"I", "n", "t", "e", "r", "n", "a", "l">>
    /\ rt.delays = 0
    /\ rt.phase = "fallback"
    /\ rt.pc = "api"
    /\ Len(rt.sent) = 2

\* C14: when the primary prompt holds the marker and gets a text-only
\* response, exactly one fallback phase is run: one more prompt is sent, it
\* differs from the primary prompt and carries the label extracted, and its
\* calls are those of one withRetry invocation (at most 3, each but the last
\* a retriable failure); no invocation sends a third prompt.
C14_OneFallbackPhase ==
    LET n == Len(rt.log)
        fb == PhaseLog("fallback")
    IN
    /\ Len(rt.sent) <= 2
    /\ (/\ \E i \in 1..n : rt.log[i].phase = "primary" /\ rt.log[i].resp.kind = "text"
        /\ HoldsLabel(rt.prompt)) =>
          /\ Len(rt.sent) = 2
          /\ rt.sent[1] = rt.prompt
          /\ rt.sent[2] # rt.prompt
          /\ \E j \in 1..Len(rt.sent[2]) : rt.sent[2][j].quoted = extractCharacter(rt.prompt)
          /\ Len(fb) <= 3
          /\ \A i \in 1..(Len(fb) - 1) : Retriable(fb[i].resp)
    /\ Len(rt.sent) = 2 =>
          \E i \in 1..n : rt.log[i].phase = "primary" /\ rt.log[i].resp.kind = "text"

\* A prompt with two marker clauses was rejected with text; the fallback
\* prompt carries the label of the first clause and was itself answered with
\* text, which ended the invocation.
C14_Witness ==
    /\ rt.prompt = << [lead |-> MARKER, quoted |-> 2], [lead |-> MARKER, quoted |-> 1] >>
    /\ Len(rt.sent) = 2
    /\ rt.sent[2][1].quoted = 2
    /\ Len(rt.log) = 2
    /\ rt.log[2].resp.kind = "text"
    /\ rt.pc = "rejected"
    /\ rt.branch = "both"

\* C15 (as claimed): when the prompt is one that generatePrompt builds, a
\* text-only response to it makes the invocation send a fallback prompt, and
\* the invocation is not rejected before a fallback call has been made.
C15_AppRejectionTriesFallback ==
    (/\ \E l \in Labels : rt.prompt = generatePrompt(l)
     /\ \E i \in 1..Len(rt.log) :
           rt.log[i].phase = "primary" /\ rt.log[i].resp.kind = "text") =>
        /\ Len(rt.sent) = 2
        /\ rt.pc = "rejected" => PhaseLog("fallback") # <<>>

\* The failure with which a phase of the invocation ended: a response without
\* image, an error that is not retriable, or the error of a third attempt
PhaseFailed(ph) ==
    LET pl == PhaseLog(ph)
        last == pl[Len(pl)].resp
    IN  /\ pl # <<>>
        /\ \/ last.kind = "text"
           \/ last.kind = "error" /\ (~Retriable(last) \/ Len(pl) = 3)

\* C16: a transport failure of the primary prompt (not retriable, or the
\* failure of the third attempt) ends the invocation with a failure and the
\* fallback prompt is not sent; a text-only response or a transport failure of
\* the fallback prompt ends the invocation with a failure; a failed fallback
\* call is the last remote call of the invocation.
C16_FailuresAreTerminal ==
    LET n == Len(rt.log)
        pr == PhaseLog("primary")
        fb == PhaseLog("fallback")
    IN
    /\ (PhaseFailed("primary") /\ pr[Len(pr)].resp.kind = "error") =>
          /\ rt.pc = "rejected"
          /\ rt.sent = <<rt.prompt>>
          /\ fb = <<>>
          /\ n = Len(pr)
          /\ rt.thrown = <<DETAILS>> \o pr[Len(pr)].resp.message
    /\ PhaseFailed("fallback") =>
          /\ rt.pc = "rejected"
          /\ rt.log[n].phase = "fallback"
          /\ Len(fb) <= 3
          /\ Len(rt.sent) = 2
    /\ rt.pc = "rejected" => ~ENABLED NextGenerate

\* The primary prompt, which holds the marker, failed three times with a
\* retriable error: the invocation is rejected, three calls made, no
\* fallback prompt sent.
C16_Witness ==
    /\ rt.pc = "rejected"
    /\ rt.branch = "details"
    /\ rt.prompt = << [lead |-> MARKER, quoted |-> 1] >>
    /\ Len(rt.log) = 3
    /\ rt.log[3].resp.status = 503
    /\ Len(rt.sent) = 1

\* C17 (as claimed): the failure thrown after the fallback attempt failed
\* carries the message of the primary rejection and the message of the
\* fallback failure.
C17_CombinedFailure ==
    LET fb == PhaseLog("fallback")
        last == fb[Len(fb)].resp
        fallbackMessage == IF last.kind = "text" THEN noImageMessage(last) ELSE last.message
    IN  (rt.pc = "rejected" /\ rt.branch = "both") =>
           /\ includes(rt.thrown, rt.caught)
           /\ includes(rt.thrown, fallbackMessage)

\* C18 (as claimed): detectGender never rejects, whatever the source image
\* string and whatever the remote call does; it resolves to Male, Female or
\* Unknown, and to Unknown when withRetry threw.
C18_NeverThrows ==
    LET n == Len(rt.log) IN
    /\ rt.pc # "rejected"
    /\ rt.pc = "resolved" => rt.result \in {"Male", "Female", "Unknown"}
    /\ (rt.pc = "resolved" /\ rt.log[n].kind = "error") => rt.result = "Unknown"

\* C19 (as claimed): the text of the response, trimmed and compared without
\* regard to case, decides the value: 'female' yields Female, 'male' yields
\* Male, a text holding neither yields Unknown.
C19_GenderMapping ==
    LET n == Len(rt.log)
        t == toLowerCase(trim(rt.log[n].message))
    IN  (rt.pc = "resolved" /\ rt.log[n].kind = "text") =>
           /\ t = female => rt.result = "Female"
           /\ t = male => rt.result = "Male"
           /\ (~includes(t, male) /\ ~includes(t, female)) => rt.result = "Unknown"

\* detectGender never resolves to Female: every text that holds 'female'
\* holds 'male', which line 195 tests first.
FemaleNeverReturned == rt.result # "Female"

\* C20 (as claimed): createAlbumPage is called, by handleDownloadAlbum and by
\* handleShareAlbum alike, only when every task of the current batch is
\* Done: no step calls it with a label of the batch Pending or Error.
C20_AlbumOnlyWhenAllDone ==
    [][album' # album =>
          \A l \in Range(generationItems) : generatedImages[l] = "done"]_vars

\* handleDownloadAlbum calls createAlbumPage only with every task of the
\* batch Done.
DownloadOnlyWhenAllDone ==
    [][album' = "download" /\ album # "download" =>
          \A l \in Range(generationItems) : generatedImages[l] = "done"]_vars

\* C21: when the generation call of one batch task (HungLabel) may never
\* return while every other call returns, every other task of a started
\* batch still reaches Done or Error, and as long as the call has not
\* returned the batch is not completed: the application stays 'generating',
\* loading, with the worker of the call unresolved.
C21_HungTaskBlocksOnlyItself ==
    /\ \A l \in Labels \ {HungLabel} :
          (appState = "generating" /\ l \in Range(generationItems))
             ~> (generatedImages[l] \in Terminal)
    /\ [](\A c \in BatchCalls :
             c.label = HungLabel =>
                /\ appState = "generating"
                /\ isLoading
                /\ c.worker \in workersRunning)

\* The call of HungLabel, the second task of a batch of three, is still at
\* its first attempt while the other worker has performed both other tasks
\* and returned; the application is still 'generating'.
C21_Witness ==
    /\ appState = "generating"
    /\ Len(generationItems) >= 3
    /\ generationItems[2] = HungLabel
    /\ \E c \in BatchCalls : c.label = HungLabel /\ c.attempt = 1 /\ c.pc = "api"
                               /\ workersRunning = {c.worker}
    /\ Cardinality(calls) = 1
    /\ itemsQueue = <<>>
    /\ \A l \in Range(generationItems) \ {HungLabel} : generatedImages[l] \in Terminal

\* C22: batch tasks are started in the order of the input list: in every
\* state of a batch the tasks started are a prefix of the list and the queue
\* is the rest of it, so the call of the task at position i is issued before
\* that of any task at a position j > i; the two calls issued when the batch
\* starts are those of positions 1 and 2, by the first and the second worker;
\* and every step that issues batch calls takes them from the head of the
\* queue.
C22_StartedInInputOrder ==
    /\ [](appState \in {"generating", "results-shown"} =>
            LET n == Len(generationItems) IN
            /\ \E k \in 0..n :
                  /\ \A i \in 1..k : performed[generationItems[i]] = 1
                  /\ \A i \in (k + 1)..n : performed[generationItems[i]] = 0
                  /\ itemsQueue = SubSeq(generationItems, k + 1, n)
            /\ \A c \in BatchCalls :
                  /\ (n >= 1 /\ c.label = generationItems[1]) => c.worker = 1
                  /\ (n >= 2 /\ c.label = generationItems[2]) => c.worker = 2)
    /\ [][\A d \in calls' \ calls :
              (d.owner = "batch" /\ d.attempt = 1 /\ d.phase = "primary"
                 /\ d.pc = "api" /\ appState = "generating") =>
                 /\ itemsQueue # <<>>
                 /\ d.label = Head(itemsQueue)
                 /\ itemsQueue' = Tail(itemsQueue)]_vars

\* The first task of a batch of three is done while the second is still in
\* flight, and the third, started after the first had ended, is in flight
\* with the first worker.
C22_Witness ==
    /\ appState = "generating"
    /\ Len(generationItems) >= 3
    /\ generatedImages[generationItems[1]] = "done"
    /\ \E c \in BatchCalls : c.label = generationItems[2] /\ c.worker = 2
    /\ \E c \in BatchCalls : c.label = generationItems[3] /\ c.worker = 1
    /\ itemsQueue = <<>>

\* C23: the step that issues the first generation calls of a batch sets the
\* status of every task label of the batch to Pending (labels outside the
\* batch get no status); while batch calls are in flight every task label has
\* a status; and the step in which a batch call ends writes Done or Error
\* for the label of that call and changes the status of no other label.
C23_PendingFirstThenOwnLabel ==
    /\ [][(BatchCalls = {} /\ \E d \in calls' : d.owner = "batch") =>
             /\ generationItems' # <<>>
             /\ \A l \in Labels :
                   generatedImages'[l] =
                      IF \E i \in 1..Len(generationItems') : generationItems'[i] = l
                      THEN "pending" ELSE "none"]_vars
    /\ [](BatchCalls # {} =>
             \A l \in Range(generationItems) : generatedImages[l] # "none")
    /\ [][\A c \in BatchCalls :
              Settled(c, calls, calls') =>
                 /\ generatedImages'[c.label] \in Terminal
                 /\ \A l \in Labels \ {c.label} :
                       generatedImages'[l] = generatedImages[l]]_vars

\* The first batch has just been started: two calls are in flight at their
\* first attempt, a third task is queued, and all three labels are Pending.
C23_Witness ==
    /\ appState = "generating"
    /\ resets = 0
    /\ regens = 0
    /\ Cardinality(BatchCalls) = 2
    /\ \A c \in BatchCalls : c.attempt = 1 /\ c.pc = "api" /\ c.phase = "primary"
    /\ Len(itemsQueue) = 1
    /\ \A l \in Range(generationItems) : generatedImages[l] = "pending"
    /\ performed[Head(itemsQueue)] = 0

\* C24 (as claimed): whatever file is uploaded and whatever the
\* classification does, appState leaves 'analyzing' only to 'generating',
\* with a batch of tasks defined; an upload never ends back in 'idle'.
C24_UploadAlwaysGenerates ==
    [][(appState = "analyzing" /\ appState' # "analyzing") =>
          /\ appState' = "generating"
          /\ generationItems' # <<>>]_vars

\* When detectGender is called with a data URL that matches its pattern,
\* appState leaves 'analyzing' to 'generating' with a batch defined.
MatchingUploadGenerates ==
    [][(appState = "analyzing" /\ analysis = "ok" /\ appState' # "analyzing") =>
          /\ appState' = "generating"
          /\ generationItems' # <<>>]_vars

\* The grid cell of column col and row row: lines 93-94 without the
\* centering terms
CellOf(col, row) ==
    [x |-> Px(100) * (col + 1) + cellWidth * col,
     y |-> Px(300) + Px(100) * (row + 1) + cellHeight * row,
     w |-> cellWidth, h |-> cellHeight]

\* Rectangle a lies inside rectangle b
Inside(a, b) ==
    /\ b.x <= a.x /\ a.x + a.w <= b.x + b.w
    /\ b.y <= a.y /\ a.y + a.h <= b.y + b.h

\* C25: for n <= 6 input images a completed createAlbumPage has drawn
\* exactly one card per input label; the cards are in pairwise distinct
\* cells, the card of forward index i in row floor(i/2) of 0..2 and column
\* i mod 2; each card's unrotated frame lies inside its own cell and inside
\* the 2480x3508 canvas below the 300-pixel header.
C25_OneCardPerCell ==
    LET n == Len(rt.characters)
        d == rt.drawn
    IN  (rt.pc = "resolved" /\ n <= 6) =>
           /\ Len(d) = n
           /\ \A i \in 1..n : Cardinality({k \in 1..n : d[k].character = rt.characters[i]}) = 1
           /\ \A k \in 1..n :
                 /\ d[k].index \in 0..(n - 1)
                 /\ d[k].character = rt.characters[d[k].index + 1]
                 /\ d[k].row = d[k].index \div 2
                 /\ d[k].col = d[k].index % 2
                 /\ d[k].row \in 0..2
                 /\ Inside(d[k], CellOf(d[k].col, d[k].row))
                 /\ Inside(d[k], [x |-> 0, y |-> Px(300), w |-> Px(2480), h |-> Px(3508 - 300)])
           /\ \A k, m \in 1..n :
                 k # m => <<d[k].row, d[k].col>> # <<d[m].row, d[m].col>>

\* Six images were loaded and six cards drawn; the card of the last label is
\* in the right cell of the third row.
C25_Witness ==
    /\ rt.pc = "resolved"
    /\ Len(rt.characters) = 6
    /\ Len(rt.drawn) = 6
    /\ \E k \in 1..6 : rt.drawn[k].character = 6 /\ rt.drawn[k].row = 2 /\ rt.drawn[k].col = 1

\* C26: the cards are drawn in reverse index order: the k-th card drawn is
\* the one of forward index n - k, so a card of a lower row is never drawn
\* after a card of an upper row; the cell of each card is the one of its
\* forward index, as it would be were the cards drawn in forward order.
C26_ReverseDrawOrder ==
    LET n == Len(rt.characters)
        d == rt.drawn
    IN  rt.pc = "resolved" =>
           /\ Len(d) = n
           /\ \A k \in 1..n :
                 /\ d[k].index = n - k
                 /\ d[k].character = rt.characters[n - k + 1]
                 /\ d[k].row = (n - k) \div 2
                 /\ d[k].col = (n - k) % 2
                 /\ d[k].x = CellOf((n - k) % 2, (n - k) \div 2).x + (cellWidth - d[k].w) \div 2
                 /\ d[k].y = CellOf((n - k) % 2, (n - k) \div 2).y + (cellHeight - d[k].h) \div 2
           /\ \A k, m \in 1..n :
                 /\ k < m => d[k].index > d[m].index
                 /\ d[k].row > d[m].row => k < m

\* Four cards were drawn: the first one drawn is the card of the fourth
\* label, in the second row, and the last one drawn is the card of the first
\* label, in the first row.
C26_Witness ==
    /\ rt.pc = "resolved"
    /\ Len(rt.drawn) = 4
    /\ rt.drawn[1].character = 4 /\ rt.drawn[1].row = 1 /\ rt.drawn[1].col = 1
    /\ rt.drawn[4].character = 1 /\ rt.drawn[4].row = 0 /\ rt.drawn[4].col = 0

\* C27: when the 2D context cannot be acquired or an image fails to load,
\* createAlbumPage fails as a whole: it is rejected, returns no image and has
\* drawn no card; a card is drawn only after every image has loaded.
C27_NoPartialAlbum ==
    LET failed == \E i \in DOMAIN rt.status : rt.status[i] = "failed" IN
    /\ (~rt.ctx \/ failed) =>
          /\ rt.pc = "rejected"
          /\ rt.drawn = <<>>
          /\ rt.result = "none"
    /\ rt.drawn # <<>> => \A i \in DOMAIN rt.status : rt.status[i] = "loaded"
    /\ rt.pc = "rejected" => ~rt.ctx \/ failed
    /\ rt.result # "none" <=> rt.pc = "resolved"

\* The third of four images failed after two others had loaded: the call is
\* rejected with no card drawn, the fourth image still loading.
C27_Witness ==
    /\ rt.ctx
    /\ Len(rt.characters) = 4
    /\ rt.status = <<"loaded", "loaded", "failed", "loading">>
    /\ rt.pc = "rejected"
    /\ rt.drawn = <<>>

\* C28 (as claimed): the remote calls outstanding at one time, those of the
\* batch workers and those of regenerations counted together, never exceed
\* concurrencyLimit.
C28_OutstandingCallsBounded ==
    Cardinality({c \in calls : c.pc = "api"}) <= concurrencyLimit

\* C29: when the primary prompt gets a text-only response and no label can be
\* extracted from the prompt (no marker clause, or one that quotes nothing),
\* the invocation makes no further remote call and is rejected with the
\* error of the rejection itself: the message thrown is the no-image message
\* of that response, with nothing put before it.
C29_NoLabelRethrows ==
    LET n == Len(rt.log) IN
    \A i \in 1..n :
        (/\ rt.log[i].phase = "primary"
         /\ rt.log[i].resp.kind = "text"
         /\ ~HoldsLabel(rt.prompt)) =>
           /\ i = n
           /\ rt.pc = "rejected"
           /\ rt.sent = <<rt.prompt>>
           /\ rt.thrown = noImageMessage(rt.log[i].resp)
           /\ rt.thrown[1] = NO_IMAGE

\* A prompt whose first marker clause quotes nothing was answered with text
\* at the second attempt: rejected after two calls, the no-image message
\* thrown as it is.
C29_Witness ==
    /\ rt.prompt = << [lead |-> MARKER, quoted |-> EmptyString],
                      [lead |-> MARKER, quoted |-> 1] >>
    /\ Len(rt.log) = 2
    /\ rt.log[2].resp.kind = "text"
    /\ rt.log[2].resp.message = <<"b", "a", "d">>
    /\ rt.pc = "rejected"
    /\ rt.thrown = <<NO_IMAGE, ": \"", "b", "a", "d", "\"">>
    /\ Len(rt.sent) = 1

\* C30: the delay before attempt k+1 is 1000 * 2^(k-1) ms plus a jitter of
\* [0, 1000) ms: it lies in [1000, 2000) before the second attempt and in
\* [2000, 3000) before the third; an invocation incurs at most 2 delays; and
\* a failure that is thrown is thrown without a delay after it.
C30_BackoffDelays ==
    LET n == Len(rt.log)
        w == rt.waits
    IN  /\ Len(w) <= 2
        /\ Len(w) = rt.delays
        /\ Len(w) >= 1 => 1000 <= w[1] /\ w[1] < 2000
        /\ Len(w) >= 2 => 2000 <= w[2] /\ w[2] < 3000
        /\ rt.pc = "delay" => Len(w) = n
        /\ rt.pc = "api" => Len(w) = n /\ rt.attempt = n + 1
        /\ rt.pc \in {"thrown", "returned"} => Len(w) = n - 1

\* Three attempts failed with a retriable error and the third failure was
\* thrown: the delays were 1999 ms and 2000 ms.
C30_Witness ==
    /\ rt.pc = "thrown"
    /\ Len(rt.log) = 3
    /\ rt.waits = <<1999, 2000>>
    /\ rt.log[3].status = 503


\* C31: every card that createAlbumPage draws has height = 1.25 x width, is
\* at most 90% of the cell wide and at most 90% of the cell high, and meets
\* one of the two caps with equality.
C31_CardSizeMaximal ==
    \A k \in DOMAIN rt.drawn :
        LET d == rt.drawn[k] IN
        /\ 4 * d.h = 5 * d.w
        /\ 10 * d.w <= 9 * cellWidth
        /\ 10 * d.h <= 9 * cellHeight
        /\ (10 * d.w = 9 * cellWidth \/ 10 * d.h = 9 * cellHeight)

\* A page with cards drawn, the height cap being the one that binds
C31_Witness ==
    /\ rt.pc = "resolved"
    /\ Len(rt.drawn) >= 1
    /\ 10 * rt.drawn[1].h = 9 * cellHeight
    /\ 10 * rt.drawn[1].w < 9 * cellWidth


\* C32: for every image of positive natural width and height the drawn
\* rectangle keeps the image's aspect ratio, is at most 90% of the card wide
\* and at most the container high, meets the container in one dimension, and
\* lies, with the caption area below it, inside the card.
C32_ImageFitsCard ==
    \A k \in DOMAIN rt.drawn :
        LET d == rt.drawn[k]
            half == Rat(1, 2)
        IN  /\ RMul(d.w, Rat(rt.naturalHeight, 1)) = RMul(d.h, Rat(rt.naturalWidth, 1))
            /\ RLe(d.w, RMul(cardWidth, Rat(9, 10)))
            /\ RLe(d.h, imageContainerHeight)
            /\ (d.w = imageContainerWidth \/ d.h = imageContainerHeight)
            /\ RLe(RNeg(RMul(cardWidth, half)), d.x)
            /\ RLe(RAdd(d.x, d.w), RMul(cardWidth, half))
            /\ RLe(RNeg(RMul(cardHeight, half)), d.y)
            /\ RLe(RAdd(d.y, d.h), captionAreaTop)
            /\ RLt(captionAreaTop, captionAreaBottom)
            /\ captionAreaBottom = RMul(cardHeight, half)

\* A tall image, for which the height is the dimension that is cut down
C32_Witness ==
    /\ rt.pc = "drawn"
    /\ 10 * rt.naturalHeight > 11 * rt.naturalWidth
    /\ rt.drawn[1].h = imageContainerHeight
    /\ RLt(rt.drawn[1].w, imageContainerWidth)


\* C33: the tasks of one batch carry pairwise distinct labels: the outfits
\* of the pools are pairwise different, and the NUM_IMAGES_TO_GENERATE items
\* built from the shuffled pool (the male pool, the female pool, or both
\* together when the gender is Unknown) have pairwise different characters
\* of that pool.
C33_DistinctLabels ==
    /\ Cardinality(Range(COMMON_MALE_OUTFITS \o COMMON_FEMALE_OUTFITS))
         = Len(COMMON_MALE_OUTFITS) + Len(COMMON_FEMALE_OUTFITS)
    /\ rt.pc = "done" =>
         /\ Len(rt.items) = NUM_IMAGES_TO_GENERATE
         /\ \A a, b \in DOMAIN rt.items :
                rt.items[a].character = rt.items[b].character => a = b
         /\ \A a \in DOMAIN rt.items :
                rt.items[a].character \in Range(poolSource(rt.gender))

\* A loadout for the gender Unknown that mixes the two pools and does not
\* begin with the first outfit of the pool
C33_Witness ==
    /\ rt.pc = "done"
    /\ rt.gender = "Unknown"
    /\ \E a \in DOMAIN rt.items : rt.items[a].character \in Range(malePool)
    /\ \E a \in DOMAIN rt.items : rt.items[a].character \in Range(femalePool)
    /\ rt.items[1].character # malePool[1]


\* C34: createAlbumPage called with an empty image set (and a 2D context to
\* draw on) draws the background and the header only, draws no card, and
\* resolves with the encoded page: it does not throw.
C34_EmptyAlbumIsHeaderOnly ==
    (rt.ctx /\ Len(rt.characters) = 0) =>
        /\ rt.pc = "resolved"
        /\ rt.page = header
        /\ rt.drawn = <<>>
        /\ rt.result = "jpeg"

\* The call with no image has returned its page
C34_Witness ==
    /\ rt.ctx
    /\ Len(rt.characters) = 0
    /\ rt.status = <<>>
    /\ rt.pc = "resolved"
    /\ rt.result = "jpeg"


\* The remote calls the invocation has issued in phase ph: those that have
\* come back and the one in flight
Issued(ph) ==
    Len(PhaseLog(ph)) + (IF rt.pc = "api" /\ rt.phase = ph THEN 1 ELSE 0)

\* C35: one generateCharacterImage invocation issues at most maxRetries
\* remote calls for the primary prompt and at most maxRetries for the
\* fallback prompt, 6 in all, and none when the source image string is not a
\* well-formed image data URL.
C35_AtMostSixCalls ==
    /\ Issued("primary") <= maxRetries
    /\ Issued("fallback") <= maxRetries
    /\ Issued("primary") + Issued("fallback") <= 6
    /\ Len(rt.log) = Len(PhaseLog("primary")) + Len(PhaseLog("fallback"))
    /\ ~matchDataUrl(rt.url) =>
          /\ rt.pc = "rejected"
          /\ rt.log = <<>>
          /\ rt.sent = <<>>
          /\ Issued("primary") + Issued("fallback") = 0

\* An invocation that has made all six calls: two retriable failures and a
\* text-only response for the primary prompt, three retriable failures for
\* the fallback prompt
C35_Witness ==
    /\ rt.pc = "rejected"
    /\ Len(PhaseLog("primary")) = 3
    /\ Len(PhaseLog("fallback")) = 3
    /\ rt.delays = 4

\* An invocation turned down for its data URL before any call
C35_WitnessInvalidUrl ==
    /\ ~matchDataUrl(rt.url)
    /\ rt.pc = "rejected"
    /\ rt.branch = "invalid-url"


\* The invocation c settles in this step: it is in flight before the step
\* and neither it nor a later attempt of it is in flight after
SettlesNow(c) ==
    /\ c \in calls
    /\ ~\E d \in calls' : d.owner = c.owner /\ d.id = c.id /\ d.worker = c.worker
                          /\ d.epoch = c.epoch

\* C36: every status write changes the entry of its own label and no other:
\* a completion (of a batch task or of a regeneration) writes done or error
\* at the label of its call, the start of a regeneration writes pending at
\* its label, and in both every other entry stays as it was; apart from the
\* start of a batch and the reset, which replace the whole map, no other
\* step changes the map.
C36_WritesOwnLabelOnly ==
    [][ /\ \A c \in calls :
               SettlesNow(c) =>
                  \E st \in {"done", "error"} :
                      generatedImages' = [generatedImages EXCEPT ![c.label] = st]
        /\ regens' # regens =>
               \E d \in calls' \ calls :
                  /\ d.owner = "regen"
                  /\ generatedImages' = [generatedImages EXCEPT ![d.label] = "pending"]
        /\ (generatedImages' # generatedImages /\ resets' = resets /\ analysis # "ok") =>
               \/ regens' # regens
               \/ \E c \in calls : SettlesNow(c)
      ]_vars

\* Two tasks of the batch have completed, one done and one error, one after
\* the other, while a third is pending
C36_Witness ==
    /\ appState = "generating"
    /\ \E l1, l2, l3 \in Labels :
          /\ generatedImages[l1] = "done"
          /\ generatedImages[l2] = "error"
          /\ generatedImages[l3] = "pending"

\* The start of a regeneration has written pending beside the entries of
\* the other labels
C36_WitnessRegeneration ==
    /\ regens = 1
    /\ \E c \in calls : c.owner = "regen" /\ generatedImages[c.label] = "pending"
    /\ \E l \in Labels : generatedImages[l] = "done"


\* The batch calls of workers created in this step (line 234): calls of
\* workers that were not running before it
WorkersCreated == {c \in calls' \ calls : c.owner = "batch" /\ c.worker \notin workersRunning}

\* An upload reaches 'generating' in this step (line 173)
ReachesGenerating == appState # "generating" /\ appState' = "generating"

AllowedMoves ==
    { <<"idle", "analyzing">>, <<"analyzing", "generating">>,
      <<"generating", "results-shown">>, <<"results-shown", "idle">>,
      <<"analyzing", "idle">> }

\* C38 (moves): appState changes only along idle -> analyzing -> generating
\* -> results-shown -> idle, and analyzing -> idle when the analysis throws.
C38_AppStateMoves ==
    [][ appState' # appState =>
           /\ <<appState, appState'>> \in AllowedMoves
           /\ (appState = "analyzing" /\ appState' = "idle") => analysis = "bad"
      ]_vars

\* C38 (states): with appState 'idle' or 'analyzing' no batch is running (no
\* worker, no batch call, nothing queued, not loading); with appState
\* 'results-shown' the queue is empty and no batch worker has a call in
\* flight.
C38_NoBatchOutsideGenerating ==
    /\ appState \in {"idle", "analyzing"} =>
          /\ workersRunning = {}
          /\ BatchCalls = {}
          /\ itemsQueue = <<>>
          /\ ~isLoading
    /\ appState = "results-shown" =>
          /\ itemsQueue = <<>>
          /\ BatchCalls = {}
          /\ workersRunning = {}

====
